---- MODULE Spec2Model ----
(***************************************************************************)
(* Model of starknet_devnet/contract_wrapper.py: the ContractWrapper and   *)
(* its single operation call_or_invoke, together with the collaborators    *)
(* it delegates to (the StarknetState executor invoke_raw, the deployed    *)
(* test contracts and the account layer of test/account.py).               *)
(***************************************************************************)
EXTENDS Integers, Sequences, FiniteSets, Bags, TLC

(***************************************************************************)
(* Bounds of the model.                                                    *)
(***************************************************************************)
MaxBalance == 100
MaxNonce == 2
MaxCalls == 2
MaxFee == 4
MaxTasks == 2
MaxAbiLen == 3

(***************************************************************************)
(* Names, selectors and addresses.                                         *)
(***************************************************************************)
FunctionNames ==
    {"__default__", "increase_balance", "get_balance",
     "__execute__", "get_nonce", "no_such_function", "echo_point"}

\* starkware.starknet.public.abi.get_selector_from_name: a deterministic,
\* injective (collision-resistant) map from names to integers.
get_selector_from_name(name) ==
    CASE name = "__default__"      -> 911
      [] name = "increase_balance" -> 362
      [] name = "get_balance"      -> 957
      [] name = "__execute__"      -> 617
      [] name = "get_nonce"        -> 756
      [] name = "no_such_function" -> 284
      [] name = "echo_point"       -> 445

DEFAULT_SELECTOR == get_selector_from_name("__default__")

Selectors == {get_selector_from_name(n) : n \in FunctionNames}

\* Addresses of the deployed contracts (small stand-ins for the felts the
\* deployment computes): the sample contract, the account contract, a
\* contract that declares only __default__, and a contract whose function
\* takes a struct and returns it.
TargetAddress == 101
AccountAddress == 102
ProxyAddress == 103
EchoAddress == 104
Addresses == {TargetAddress, AccountAddress, ProxyAddress, EchoAddress}

\* caller_address of a transaction that comes from outside
ExternalCaller == 0

Choices == {"call", "invoke"}

(***************************************************************************)
(* ABIs of the deployed contracts and the tables __init__ derives.         *)
(***************************************************************************)
AbiEntry(type, name) ==
    [type |-> type, name |-> name, members |-> << >>,
     inputs |-> << >>, outputs |-> << >>]

\* A member of a struct, or an input or output of a function: its name and
\* its declared type ("felt", "felt*" or the name of a struct).
Member(name, type) == [name |-> name, type |-> type]

\* A struct entry with its members, in declaration order.
AbiStruct(name, members) ==
    [type |-> "struct", name |-> name, members |-> members,
     inputs |-> << >>, outputs |-> << >>]

\* A function entry with its declared inputs and outputs.
AbiFunction(name, inputs, outputs) ==
    [type |-> "function", name |-> name, members |-> << >>,
     inputs |-> inputs, outputs |-> outputs]

NoAbi == AbiEntry("none", "")

Abi(address) ==
    CASE address = TargetAddress ->
           << AbiEntry("function", "increase_balance"),
              AbiEntry("function", "get_balance") >>
      [] address = AccountAddress ->
           << AbiEntry("struct", "AccountCallArray"),
              AbiEntry("function", "__execute__"),
              AbiEntry("function", "get_nonce") >>
      [] address = ProxyAddress ->
           << AbiEntry("function", "__default__") >>
      [] address = EchoAddress ->
           << AbiStruct("Point", << Member("x", "felt"), Member("y", "felt") >>),
              AbiFunction("echo_point", << Member("p", "Point") >>,
                                        << Member("p", "Point") >>) >>

\* StarknetContract._abi_function_mapping: function name -> ABI entry
FunctionMappingOf(abi) ==
    [n \in {abi[i].name : i \in {j \in DOMAIN abi : abi[j].type = "function"}} |->
       abi[CHOOSE i \in DOMAIN abi : abi[i].type = "function" /\ abi[i].name = n]]

AbiFunctionMapping(address) == FunctionMappingOf(Abi(address))

\* Faulty variant of extract_types: the first entry of a name is kept.
extract_types_FirstWins(abi) ==
    LET structs == {i \in DOMAIN abi : abi[i].type = "struct"}
        names == {abi[i].name : i \in structs}
        firstOf(n) == CHOOSE i \in structs :
                         /\ abi[i].name = n
                         /\ \A j \in structs : abi[j].name = n => i <= j
    IN [n \in names |-> abi[firstOf(n)]]

\* extract_types: the struct entries, keyed by name; a later entry of the
\* same name overwrites an earlier one.
extract_types(abi) ==
    LET structs == {i \in DOMAIN abi : abi[i].type = "struct"}
        names == {abi[i].name : i \in structs}
        lastOf(n) == CHOOSE i \in structs :
                        /\ abi[i].name = n
                        /\ \A j \in structs : abi[j].name = n => j <= i
    IN [n \in names |-> abi[lastOf(n)]]

\* Faulty variant of extract_function_abis: the default entry point is
\* left out of the table.
extract_function_abis_SkipsDefault(function_mapping) ==
    [s \in {get_selector_from_name(n) : n \in DOMAIN function_mapping \ {"__default__"}} |->
       function_mapping[CHOOSE n \in DOMAIN function_mapping :
                           get_selector_from_name(n) = s]]

\* extract_function_abis: selector -> ABI entry
extract_function_abis(function_mapping) ==
    [s \in {get_selector_from_name(n) : n \in DOMAIN function_mapping} |->
       function_mapping[CHOOSE n \in DOMAIN function_mapping :
                           get_selector_from_name(n) = s]]

\* ContractWrapper.__init__
ContractWrapper(address) ==
    LET Wrap(abi) ==
            [contract_address |-> address,
             code             |-> [abi |-> abi],
             types            |-> extract_types(abi),
             selector2abi     |-> extract_function_abis(AbiFunctionMapping(address))]
    IN Wrap(Abi(address))

(***************************************************************************)
(* The world state (StarknetState): the storage of the deployed contracts. *)
(*   balance : storage of the sample contract at TargetAddress             *)
(*   nonce   : stored nonce of the account contract at AccountAddress      *)
(***************************************************************************)
InitialState == [balance |-> 0, nonce |-> 0]

Ok(s, retdata, steps) ==
    [ok |-> TRUE, err |-> "", state |-> s, retdata |-> retdata, steps |-> steps]

\* A failed run; s is the working state at the point of failure.
Fail(s, err) ==
    [ok |-> FALSE, err |-> err, state |-> s, retdata |-> << >>, steps |-> 0]

\* Entry point lookup of the executor: the selector's own entry point, else
\* the contract's default entry point, else none.
EntryPoint(address, selector) ==
    LET Lookup(names) ==
            IF selector # DEFAULT_SELECTOR
               /\ \E n \in names : get_selector_from_name(n) = selector
            THEN CHOOSE n \in names : get_selector_from_name(n) = selector
            ELSE IF "__default__" \in names THEN "__default__"
            ELSE "none"
    IN Lookup(DOMAIN AbiFunctionMapping(address))

\* The sample contract: increase_balance(amount1, amount2), get_balance().
TargetContract(s, selector, calldata) ==
    LET Run(fn) ==
            CASE fn = "increase_balance" ->
                   IF Len(calldata) # 2 THEN Fail(s, "InvalidArguments")
                   ELSE Ok([s EXCEPT !.balance = @ + calldata[1] + calldata[2]], << >>, 1)
              [] fn = "get_balance" ->
                   IF Len(calldata) # 0 THEN Fail(s, "InvalidArguments")
                   ELSE Ok(s, << s.balance >>, 1)
              [] OTHER -> Fail(s, "EntryPointNotFound")
    IN Run(EntryPoint(TargetAddress, selector))

\* A contract that only declares __default__: it forwards the request to
\* the sample contract.
ProxyContract(s, selector, calldata) ==
    LET Forwarded(inner) ==
            IF ~inner.ok THEN Fail(inner.state, inner.err)
            ELSE Ok(inner.state, inner.retdata, inner.steps + 1)
    IN IF EntryPoint(ProxyAddress, selector) # "__default__"
       THEN Fail(s, "EntryPointNotFound")
       ELSE Forwarded(TargetContract(s, selector, calldata))

\* A contract with echo_point(p : Point) -> (p : Point): the two felts of
\* the struct come back as they were passed.
EchoContract(s, selector, calldata) ==
    IF EntryPoint(EchoAddress, selector) # "echo_point"
    THEN Fail(s, "EntryPointNotFound")
    ELSE IF Len(calldata) # 2 THEN Fail(s, "InvalidArguments")
    ELSE Ok(s, calldata, 1)

(***************************************************************************)
(* Account layer: multicall calldata and the account's __execute__.        *)
(***************************************************************************)
AccountCall(to, name, args) == [to |-> to, name |-> name, args |-> args]

RECURSIVE SerializeCalls(_)
SerializeCalls(calls) ==
    IF calls = << >> THEN << >>
    ELSE LET c == Head(calls)
         IN << c.to, get_selector_from_name(c.name), Len(c.args) >> \o c.args
            \o SerializeCalls(Tail(calls))

\* build_multicall: the calls in order, followed by the nonce.
build_multicall(calls, nonce) == SerializeCalls(calls) \o << nonce >>

\* What __execute__ reads back from its calldata.
RECURSIVE ParseMulticall(_)
ParseMulticall(cd) ==
    IF Len(cd) = 0 THEN [ok |-> FALSE, calls |-> << >>, nonce |-> 0]
    ELSE IF Len(cd) = 1 THEN [ok |-> TRUE, calls |-> << >>, nonce |-> cd[1]]
    ELSE IF Len(cd) < 4 \/ cd[3] < 0 \/ cd[3] + 4 > Len(cd)
    THEN [ok |-> FALSE, calls |-> << >>, nonce |-> 0]
    ELSE LET c == [to |-> cd[1], selector |-> cd[2],
                   calldata |-> SubSeq(cd, 4, 3 + cd[3])]
             Prepend(rest) ==
                 [ok |-> rest.ok, calls |-> << c >> \o rest.calls, nonce |-> rest.nonce]
         IN Prepend(ParseMulticall(SubSeq(cd, 4 + cd[3], Len(cd))))

\* One call issued by the account on behalf of the multicall.
CallContract(s, c) ==
    CASE c.to = TargetAddress -> TargetContract(s, c.selector, c.calldata)
      [] c.to = ProxyAddress  -> ProxyContract(s, c.selector, c.calldata)
      [] OTHER                -> Fail(s, "ContractNotFound")

\* The calls of a multicall, in list order; the first failure fails all.
RECURSIVE ExecuteCalls(_, _)
ExecuteCalls(s, calls) ==
    IF calls = << >> THEN Ok(s, << >>, 0)
    ELSE LET Join(first, rest) ==
                 IF ~rest.ok THEN Fail(rest.state, rest.err)
                 ELSE Ok(rest.state, first.retdata \o rest.retdata,
                         first.steps + rest.steps)
             Continue(first) ==
                 IF ~first.ok THEN Fail(first.state, first.err)
                 ELSE Join(first, ExecuteCalls(first.state, Tail(calls)))
         IN Continue(CallContract(s, Head(calls)))

\* The account contract: __execute__(calls..., nonce), get_nonce().
AccountContract(s, selector, calldata) ==
    LET Finish(run) ==
            IF ~run.ok THEN Fail(run.state, run.err)
            ELSE Ok(run.state, run.retdata, run.steps + 2)
        Execute(parsed) ==
            IF ~parsed.ok THEN Fail(s, "InvalidArguments")
            ELSE IF parsed.nonce # s.nonce THEN Fail(s, "NonceMismatch")
            ELSE Finish(ExecuteCalls([s EXCEPT !.nonce = @ + 1], parsed.calls))
        Run(fn) ==
            CASE fn = "get_nonce" ->
                   IF Len(calldata) # 0 THEN Fail(s, "InvalidArguments")
                   ELSE Ok(s, << s.nonce >>, 1)
              [] fn = "__execute__" -> Execute(ParseMulticall(calldata))
              [] OTHER -> Fail(s, "EntryPointNotFound")
    IN Run(EntryPoint(AccountAddress, selector))

(***************************************************************************)
(* The executor: StarknetState.invoke_raw.                                 *)
(***************************************************************************)
None == [some |-> FALSE, values |-> << >>]

Some(values) == [some |-> TRUE, values |-> values]

\* Runs the entry point of the addressed contract on the given state.
ExecuteEntryPoint(s, a) ==
    CASE a.contract_address = TargetAddress ->
           TargetContract(s, a.selector, a.calldata)
      [] a.contract_address = AccountAddress ->
           AccountContract(s, a.selector, a.calldata)
      [] a.contract_address = ProxyAddress ->
           ProxyContract(s, a.selector, a.calldata)
      [] a.contract_address = EchoAddress ->
           EchoContract(s, a.selector, a.calldata)
      [] OTHER -> Fail(s, "ContractNotFound")

\* The fee gate of the executor: the computed fee must not exceed max_fee.
FeeRejected(actual_fee, max_fee) == actual_fee > max_fee

\* Faulty variant of invoke_raw: the working copy is kept when the
\* transaction fails.
invoke_raw_NoRollback(s, a) ==
    LET Outcome(run) ==
            IF ~run.ok
            THEN [ok |-> FALSE, err |-> run.err, state |-> run.state,
                  retdata |-> << >>, actual_fee |-> 0]
            ELSE IF FeeRejected(run.steps, a.max_fee)
            THEN [ok |-> FALSE, err |-> "FeeTooLow", state |-> run.state,
                  retdata |-> << >>, actual_fee |-> 0]
            ELSE [ok |-> TRUE, err |-> "", state |-> run.state,
                  retdata |-> run.retdata, actual_fee |-> run.steps]
    IN Outcome(ExecuteEntryPoint(s, a))

\* invoke_raw(contract_address, selector, calldata, caller_address, max_fee,
\* signature) on state s: the transaction runs on a working copy of s that
\* is applied only when it succeeds; a failure is raised to the caller.
invoke_raw(s, a) ==
    LET Outcome(run) ==
            IF ~run.ok
            THEN [ok |-> FALSE, err |-> run.err, state |-> s,
                  retdata |-> << >>, actual_fee |-> 0]
            ELSE IF FeeRejected(run.steps, a.max_fee)
            THEN [ok |-> FALSE, err |-> "FeeTooLow", state |-> s,
                  retdata |-> << >>, actual_fee |-> 0]
            ELSE [ok |-> TRUE, err |-> "", state |-> run.state,
                  retdata |-> run.retdata, actual_fee |-> run.steps]
    IN Outcome(ExecuteEntryPoint(s, a))

(***************************************************************************)
(* ContractWrapper.call_or_invoke.                                         *)
(***************************************************************************)
\* A signature value as the caller passes it: a number, or the decimal
\* string of one (its digits, most significant first).
IntValue(n) == [str |-> FALSE, int |-> n, digits |-> << >>]

StrValue(digits) == [str |-> TRUE, int |-> 0, digits |-> digits]

RECURSIVE FromDigits(_)
FromDigits(digits) ==
    IF digits = << >> THEN 0
    ELSE 10 * FromDigits(SubSeq(digits, 1, Len(digits) - 1)) + digits[Len(digits)]

cast_to_felt(value) == IF value.str THEN FromDigits(value.digits) ELSE value.int

\* cast_to_felts: every value of the signature as a field element, in order.
cast_to_felts(values) == [i \in DOMAIN values |-> cast_to_felt(values[i])]

HexDigit(d) ==
    CASE d = 0 -> "0" [] d = 1 -> "1" [] d = 2 -> "2" [] d = 3 -> "3"
      [] d = 4 -> "4" [] d = 5 -> "5" [] d = 6 -> "6" [] d = 7 -> "7"
      [] d = 8 -> "8" [] d = 9 -> "9" [] d = 10 -> "a" [] d = 11 -> "b"
      [] d = 12 -> "c" [] d = 13 -> "d" [] d = 14 -> "e" [] d = 15 -> "f"

RECURSIVE HexDigits(_)
HexDigits(n) ==
    IF n < 16 THEN HexDigit(n) ELSE HexDigits(n \div 16) \o HexDigit(n % 16)

\* adapt_output(retdata): the flat return data as hex strings.
adapt_output(retdata) == [i \in DOMAIN retdata |-> "0x" \o HexDigits(retdata[i])]

\* The verdicts of adapt_output on the return data: the adapter hands the
\* adapted values back or raises AdaptationError.  Line 93 hands it the
\* executor's retdata and nothing that settles which.
AdaptationFails(retdata) == BOOLEAN

\* Structured arguments: a felt, an array of felts, or a struct with its
\* fields in declaration order.
FeltValue(n) == [kind |-> "felt", felt |-> n, name |-> "", items |-> << >>]

ArrayValue(items) == [kind |-> "array", felt |-> 0, name |-> "", items |-> items]

StructValue(name, items) == [kind |-> "struct", felt |-> 0, name |-> name, items |-> items]

RECURSIVE AdaptType(_, _, _)
RECURSIVE AdaptMembers(_, _, _)

\* One value of the declared type from the front of flat: a scalar takes
\* one element, an array its length and that many elements, a struct one
\* value per declared member, looked up in the type catalog.
AdaptType(type, flat, types) ==
    LET Failed == [ok |-> FALSE, value |-> FeltValue(0), rest |-> flat]
        Struct(fields) ==
            IF ~fields.ok THEN Failed
            ELSE [ok |-> TRUE, value |-> StructValue(type, fields.values),
                  rest |-> fields.rest]
    IN CASE type = "felt" ->
              IF flat = << >> THEN Failed
              ELSE [ok |-> TRUE, value |-> FeltValue(Head(flat)), rest |-> Tail(flat)]
         [] type = "felt*" ->
              IF flat = << >> \/ Head(flat) < 0 \/ Head(flat) > Len(flat) - 1
              THEN Failed
              ELSE [ok |-> TRUE,
                    value |-> ArrayValue([i \in 1..Head(flat) |-> FeltValue(flat[i + 1])]),
                    rest |-> SubSeq(flat, Head(flat) + 2, Len(flat))]
         [] OTHER ->
              IF type \notin DOMAIN types THEN Failed
              ELSE Struct(AdaptMembers(types[type].members, flat, types))

AdaptMembers(members, flat, types) ==
    LET Rest(first, others) ==
            [ok |-> others.ok, values |-> << first.value >> \o others.values,
             rest |-> others.rest]
        After(first) ==
            IF ~first.ok THEN [ok |-> FALSE, values |-> << >>, rest |-> flat]
            ELSE Rest(first, AdaptMembers(Tail(members), first.rest, types))
    IN IF members = << >> THEN [ok |-> TRUE, values |-> << >>, rest |-> flat]
       ELSE After(AdaptType(Head(members).type, flat, types))

\* adapt_calldata(flat_values, input_type_specs, type_catalog)
adapt_calldata(flat, inputs, types) ==
    LET Adapted(r) ==
            [ok |-> r.ok, err |-> IF r.ok THEN "" ELSE "AdaptationError",
             values |-> r.values]
    IN Adapted(AdaptMembers(inputs, flat, types))

\* Faulty variants of StateView: no copy is taken for a call; an invoke
\* runs on a copy too; the two choices are swapped.
StateView_AlwaysLive(choice) == "live"

StateView_AlwaysCopy(choice) == "copy"

StateView_Inverted(choice) == IF choice # "call" THEN "copy" ELSE "live"

\* line 60: the state the executor runs on, a copy for a call and the
\* contract's own state for an invoke.
StateView(choice) == IF choice = "call" THEN "copy" ELSE "live"

\* Faulty variant of InvokeRawArgs: max_fee is given the caller's address.
InvokeRawArgs_FeeFromCaller(w, entry_point_selector, calldata, signature, caller_address, max_fee) ==
    [contract_address |-> w.contract_address,
     selector         |-> entry_point_selector,
     calldata         |-> calldata,
     caller_address   |-> caller_address,
     max_fee          |-> caller_address,
     signature        |-> IF signature = None THEN None
                          ELSE Some(cast_to_felts(signature.values))]

\* Faulty variants of InvokeRawArgs: a max_fee of 0 is taken for "no
\* bound"; caller_address and max_fee are the placeholders of the variant
\* that lines 71-78 keep commented out.
InvokeRawArgs_ZeroFeeUnbounded(w, entry_point_selector, calldata, signature, caller_address, max_fee) ==
    [contract_address |-> w.contract_address,
     selector         |-> entry_point_selector,
     calldata         |-> calldata,
     caller_address   |-> caller_address,
     max_fee          |-> IF max_fee = 0 THEN MaxFee ELSE max_fee,
     signature        |-> IF signature = None THEN None
                          ELSE Some(cast_to_felts(signature.values))]

InvokeRawArgs_Placeholders(w, entry_point_selector, calldata, signature, caller_address, max_fee) ==
    [contract_address |-> w.contract_address,
     selector         |-> entry_point_selector,
     calldata         |-> calldata,
     caller_address   |-> 0,
     max_fee          |-> 0,
     signature        |-> IF signature = None THEN None
                          ELSE Some(cast_to_felts(signature.values))]

\* lines 62-69: the arguments handed to invoke_raw.
InvokeRawArgs(w, entry_point_selector, calldata, signature, caller_address, max_fee) ==
    [contract_address |-> w.contract_address,
     selector         |-> entry_point_selector,
     calldata         |-> calldata,
     caller_address   |-> caller_address,
     max_fee          |-> max_fee,
     signature        |-> IF signature = None THEN None
                          ELSE Some(cast_to_felts(signature.values))]

\* lines 80-85 are commented out: no ABI entry is looked up in selector2abi.
ResolvedAbi(w, entry_point_selector) == NoAbi

\* Faulty variants of Raised: the executor's error is replaced by the
\* devnet's own exception; the error is swallowed.
Raised_Wrapped(info) == IF info.ok THEN "" ELSE "StarknetDevnetException"

Raised_Swallowed(info) == ""

\* lines 62-69 sit in no try block: what the executor raises is what
\* call_or_invoke raises ("" when nothing is raised).
Raised(info) == info.err

\* The whole of call_or_invoke on persistent state s: the outcomes it can
\* have, each with what it returns or raises and the persistent state it
\* leaves.  Line 93 runs only when the await of line 62 raised nothing,
\* and what the executor did to the live state is done by then.
call_or_invoke(w, s, choice, entry_point_selector, calldata, signature, caller_address, max_fee) ==
    LET Result(view, args, info, refused) ==
            [view           |-> view,
             args           |-> args,
             method_abi     |-> ResolvedAbi(w, entry_point_selector),
             executed       |-> info.ok,
             ok             |-> Raised(info) = "" /\ ~refused,
             err            |-> IF Raised(info) # "" THEN Raised(info)
                                ELSE IF refused THEN "AdaptationError" ELSE "",
             retdata        |-> info.retdata,
             adapted        |-> IF refused THEN << >>
                                ELSE adapt_output(info.retdata),
             actual_fee     |-> info.actual_fee,
             state          |-> IF view = "live" THEN info.state ELSE s]
        Outcomes(view, args, info) ==
            {Result(view, args, info, refused) :
                refused \in IF Raised(info) # "" THEN {FALSE}
                            ELSE AdaptationFails(info.retdata)}
        Await(view, args) == Outcomes(view, args, invoke_raw(s, args))
    IN Await(StateView(choice),
             InvokeRawArgs(w, entry_point_selector, calldata, signature,
                           caller_address, max_fee))

\* The outcome in which adapt_output hands the adapted values back.
Adapted(outcomes) == CHOOSE r \in outcomes : r.err # "AdaptationError"

(***************************************************************************)
(* State of the running devnet.                                            *)
(*   state    : the persistent StarknetState shared by all wrappers        *)
(*   last     : the request of the coroutine that has just resumed and its *)
(*              outcome, until the result is handed back to the caller     *)
(*   accepted : nonces carried by the account invokes accepted so far      *)
(*   invokes  : number of account invokes accepted so far                  *)
(*   tasks    : the call_or_invoke coroutines suspended at the await of    *)
(*              line 62, each with its request and the state at its start  *)
(*   wrapper  : a wrapper built from an arbitrary ABI                      *)
(***************************************************************************)
VARIABLES state, last, accepted, invokes, tasks, wrapper

vars == << state, last, accepted, invokes, tasks, wrapper >>

\* A signature of a number and a decimal string.
Signed == Some(<< IntValue(7), StrValue(<< 1, 2 >>) >>)

Increase == AccountCall(TargetAddress, "increase_balance", << 10, 20 >>)

AccountCalls ==
    {Increase,
     AccountCall(TargetAddress, "increase_balance", << 30, 40 >>),
     AccountCall(TargetAddress, "increase_balance", << 10 >>),
     AccountCall(TargetAddress, "get_balance", << >>)}

RECURSIVE SeqsUpTo(_, _)
SeqsUpTo(S, n) ==
    IF n = 0 THEN {<< >>}
    ELSE LET Extend(shorter) ==
                 shorter \cup {Append(q, x) : q \in shorter, x \in S}
         IN Extend(SeqsUpTo(S, n - 1))

\* The multicalls sent: increase_balance(10, 20) followed by up to
\* MaxCalls - 1 further calls.
Multicalls ==
    {<< Increase >> \o rest : rest \in SeqsUpTo(AccountCalls, MaxCalls - 1)}

NoRequest ==
    [op |-> "none", choice |-> "call", address |-> TargetAddress,
     selector |-> 0, calldata |-> << >>, signature |-> None,
     caller_address |-> ExternalCaller, max_fee |-> 0,
     start |-> InitialState, seen |-> InitialState,
     pre |-> InitialState, pre_accepted |-> {},
     view |-> "copy", args |-> InvokeRawArgs(ContractWrapper(TargetAddress), 0, << >>, None, ExternalCaller, 0),
     executor_calls |-> 0, method_abi |-> NoAbi,
     executed |-> FALSE, ok |-> FALSE, err |-> "", retdata |-> << >>, adapted |-> << >>,
     actual_fee |-> 0]

\* No wrapper built yet for the contract definition with ABI `abi`.
Unbuilt(abi) ==
    [built |-> FALSE, abi |-> abi, contract_address |-> TargetAddress,
     code |-> [abi |-> << >>], types |-> << >>, selector2abi |-> << >>]

Init ==
    /\ state = InitialState
    /\ last = NoRequest
    /\ accepted = {}
    /\ invokes = 0
    /\ tasks = EmptyBag
    /\ wrapper = Unbuilt(<< >>)

(***************************************************************************)
(* call_or_invoke is a coroutine.  Lines 54-62 run when it is started:     *)
(* line 60 selects the state view and the await of line 62 hands control   *)
(* to the executor, which may suspend while the virtual machine runs.      *)
(* Nothing between lines 54 and 93 takes a lock or queues the request, so  *)
(* other coroutines of the same or of another wrapper start and resume     *)
(* while this one is suspended.  Once the executor resumes, lines 62-93    *)
(* run to the return without another await.                                *)
(***************************************************************************)
\* A request: the wrapper it is sent to (`via` "deployed": the wrapper of
\* the contract at `address`; "built": the wrapper just constructed) and
\* the arguments of call_or_invoke.
Request(op, via, address, choice, selector, calldata, signature, caller_address, max_fee) ==
    [op |-> op, via |-> via, address |-> address, choice |-> choice,
     selector |-> selector, calldata |-> calldata, signature |-> signature,
     caller_address |-> caller_address, max_fee |-> max_fee]

\* A call or invoke request sent to the wrapper of a deployed contract.
Direct(address, choice, name, calldata, signature, caller_address, max_fee) ==
    Request("call_or_invoke", "deployed", address, choice,
            get_selector_from_name(name), calldata, signature,
            caller_address, max_fee)

\* The call or invoke requests sent to the deployed contracts.
CallOrInvokeRequests ==
    {Direct(TargetAddress, "invoke", "increase_balance", << 10, 20 >>,
            None, ExternalCaller, max_fee) : max_fee \in {0, MaxFee}}
    \cup {Direct(TargetAddress, "call", "get_balance", << >>, None,
                 ExternalCaller, MaxFee),
          Direct(AccountAddress, "call", "get_nonce", << >>, None,
                 ExternalCaller, MaxFee)}
    \cup {Direct(AccountAddress, "invoke", "__execute__",
                 build_multicall(<< Increase >>, 0), Signed,
                 AccountAddress, max_fee) : max_fee \in {1, MaxFee}}
    \cup {Direct(address, choice, "no_such_function", << >>, None,
                 ExternalCaller, 0) :
             address \in {TargetAddress, ProxyAddress}, choice \in Choices}
    \cup {Direct(EchoAddress, choice, "echo_point", << 10, 20 >>, None,
                 ExternalCaller, MaxFee) : choice \in Choices}

\* execute(calls, account, max_fee): the multicall as one invoke of the
\* account's __execute__.
ExecuteRequest(calls, nonce, signature, max_fee) ==
    Request("execute", "deployed", AccountAddress, "invoke",
            get_selector_from_name("__execute__"),
            build_multicall(calls, nonce), signature, ExternalCaller, max_fee)

ExecuteRequests ==
    {ExecuteRequest(calls, 0, Signed, MaxFee) :
        calls \in Multicalls \cup {<< c >> : c \in AccountCalls}}
    \cup {ExecuteRequest(<< Increase >>, nonce, Signed, MaxFee) :
             nonce \in 0..MaxNonce}
    \cup {ExecuteRequest(<< Increase >>, 0, None, max_fee) :
             max_fee \in 0..MaxFee}

\* estimate_fee(calls, account): the same request as a call.
EstimateFeeRequests ==
    {Request("estimate_fee", "deployed", AccountAddress, "call",
             get_selector_from_name("__execute__"),
             build_multicall(<< Increase >>, nonce), Signed,
             ExternalCaller, MaxFee) : nonce \in 0..MaxNonce}

\* The call or invoke requests sent to the wrapper just constructed.
UseWrapperRequests ==
    {Request("call_or_invoke", "built", TargetAddress, "invoke",
             get_selector_from_name("increase_balance"), << 10, 20 >>,
             None, ExternalCaller, MaxFee),
     Request("call_or_invoke", "built", TargetAddress, "call",
             get_selector_from_name("get_balance"), << >>,
             None, ExternalCaller, MaxFee)}
    \cup {Request("call_or_invoke", "built", TargetAddress, choice,
                  get_selector_from_name("no_such_function"), calldata,
                  None, ExternalCaller, MaxFee) :
             choice \in Choices, calldata \in {<< >>, << 10, 20 >>}}

\* The contents the executor finds in the state object it was handed when
\* it resumes.  An ephemeral copy (line 60) belongs to one coroutine and
\* still holds what was copied.  The live state is shared: the executor
\* works on what it read before suspending or on what is there now.
ExecutorReads(view, start, now) ==
    IF view = "copy" THEN {start} ELSE {start, now}

\* The live state after the executor has written back what its run
\* changed in the contents `seen` it worked on.
WrittenBack(now, seen, out) ==
    [balance |-> IF out.balance # seen.balance THEN out.balance ELSE now.balance,
     nonce   |-> IF out.nonce # seen.nonce THEN out.nonce ELSE now.nonce]

\* An invoke of the account's __execute__ that the executor accepted.
IsAccountInvoke(address, choice, selector, r) ==
    /\ address = AccountAddress
    /\ choice = "invoke"
    /\ r.executed
    /\ EntryPoint(AccountAddress, selector) = "__execute__"

\* lines 54-62: a coroutine starts for request q, selects its view of the
\* state, calls the executor (its first call of invoke_raw) and awaits it.
Serve(q) ==
    /\ tasks' = tasks (+) SetToBag({[request |-> q, start |-> state,
                                     executor_calls |-> 1]})
    /\ UNCHANGED << state, last, accepted, invokes, wrapper >>

\* A call or invoke request sent to a deployed contract.
CallOrInvoke ==
    /\ last.op = "none"
    /\ BagCardinality(tasks) < MaxTasks
    /\ \E q \in CallOrInvokeRequests : Serve(q)

\* execute(calls, account, max_fee)
Execute ==
    /\ last.op = "none"
    /\ BagCardinality(tasks) < MaxTasks
    /\ \E q \in ExecuteRequests : Serve(q)

\* estimate_fee(calls, account)
EstimateFee ==
    /\ last.op = "none"
    /\ BagCardinality(tasks) < MaxTasks
    /\ \E q \in EstimateFeeRequests : Serve(q)

\* Faulty variant of Resubmitted: a coroutine whose request failed calls
\* the executor once more and awaits it again.
Resubmitted_RetryOnFailure(t, r) ==
    IF r.ok \/ t.executor_calls > 1 THEN EmptyBag
    ELSE SetToBag({[t EXCEPT !.executor_calls = @ + 1]})

\* What a coroutine leaves in flight when the await of line 62 is over:
\* lines 62-93 hold no loop and no except clause around the await, so with
\* result r or with an error the coroutine ends and awaits nothing more.
Resubmitted(t, r) == EmptyBag

\* lines 62-93: the executor resumes for one of the suspended coroutines,
\* runs its request and writes the outcome to the state object it was
\* handed; the coroutine runs on to its return.
Resume ==
    /\ last.op = "none"
    /\ \E t \in BagToSet(tasks) :
       \E seen \in ExecutorReads(StateView(t.request.choice), t.start, state) :
       \E r \in call_or_invoke(IF t.request.via = "built" THEN wrapper
                               ELSE ContractWrapper(t.request.address),
                               seen, t.request.choice, t.request.selector,
                               t.request.calldata, t.request.signature,
                               t.request.caller_address, t.request.max_fee),
          acc \in BOOLEAN :
         /\ acc = IsAccountInvoke(t.request.address, t.request.choice,
                                  t.request.selector, r)
         /\ state' = IF r.view = "live" THEN WrittenBack(state, seen, r.state)
                     ELSE state
         /\ state'.balance <= MaxBalance
         /\ state'.nonce <= MaxNonce
         /\ accepted' = IF acc
                        THEN accepted \cup {ParseMulticall(t.request.calldata).nonce}
                        ELSE accepted
         /\ invokes' = IF acc THEN invokes + 1 ELSE invokes
         /\ tasks' = (tasks (-) SetToBag({t})) (+) Resubmitted(t, r)
         /\ last' = [op |-> t.request.op, choice |-> t.request.choice,
                     address |-> t.request.address,
                     selector |-> t.request.selector,
                     calldata |-> t.request.calldata,
                     signature |-> t.request.signature,
                     caller_address |-> t.request.caller_address,
                     max_fee |-> t.request.max_fee,
                     start |-> t.start, seen |-> seen,
                     pre |-> state, pre_accepted |-> accepted,
                     view |-> r.view, args |-> r.args,
                     executor_calls |-> t.executor_calls,
                     method_abi |-> r.method_abi,
                     executed |-> r.executed, ok |-> r.ok, err |-> r.err, retdata |-> r.retdata,
                     adapted |-> r.adapted, actual_fee |-> r.actual_fee]
    /\ UNCHANGED wrapper

\* line 93: the result (or the error raised) reaches the caller.
Return ==
    /\ last.op # "none"
    /\ last' = NoRequest
    /\ UNCHANGED << state, accepted, invokes, tasks, wrapper >>

Next == CallOrInvoke \/ Execute \/ EstimateFee \/ Resume \/ Return

Spec == Init /\ [][Next]_vars

(***************************************************************************)
(* Construction of a wrapper from an arbitrary ABI, and its use.           *)
(***************************************************************************)
AbiEntries ==
    {AbiStruct("Point", << Member("x", "felt"), Member("y", "felt") >>),
     AbiStruct("Point", << Member("x", "felt"), Member("y", "felt"),
                           Member("z", "felt") >>),
     AbiStruct("Pair", << Member("first", "Point"), Member("second", "felt*") >>),
     AbiEntry("function", "increase_balance"),
     AbiEntry("function", "__default__"),
     AbiEntry("event", "balance_increased")}

\* ABIs of at most MaxAbiLen entries that declare no function twice.
AbiInputs ==
    {abi \in SeqsUpTo(AbiEntries, MaxAbiLen) :
        \A i, j \in DOMAIN abi :
            (abi[i].type = "function" /\ abi[j].type = "function"
             /\ abi[i].name = abi[j].name) => i = j}

InitAbi ==
    /\ state = InitialState
    /\ last = NoRequest
    /\ accepted = {}
    /\ invokes = 0
    /\ tasks = EmptyBag
    /\ wrapper \in {Unbuilt(abi) : abi \in AbiInputs}

\* ContractWrapper.__init__ on a contract definition with ABI wrapper.abi.
Construct ==
    /\ ~wrapper.built
    /\ wrapper' = [built            |-> TRUE,
                   abi              |-> wrapper.abi,
                   contract_address |-> wrapper.contract_address,
                   code             |-> [abi |-> wrapper.abi],
                   types            |-> extract_types(wrapper.abi),
                   selector2abi     |-> extract_function_abis(FunctionMappingOf(wrapper.abi))]
    /\ UNCHANGED << state, last, accepted, invokes, tasks >>

\* A call or invoke request sent to the wrapper built.
UseWrapper ==
    /\ wrapper.built
    /\ last.op = "none"
    /\ BagCardinality(tasks) < MaxTasks
    /\ \E q \in UseWrapperRequests : Serve(q)

NextAbi == Construct \/ UseWrapper \/ Resume \/ Return

SpecAbi == InitAbi /\ [][NextAbi]_vars

(***************************************************************************)
(* Vocabulary of the properties.                                           *)
(***************************************************************************)
\* Status the devnet reports for a transaction.
TxStatus(ok) == IF ok THEN "ACCEPTED_ON_L2" ELSE "REJECTED"

Served == last.op # "none"

ServedCall == Served /\ last.choice = "call"

ServedInvoke == Served /\ last.choice = "invoke"

\* The request just served is a well-formed multicall for the account.
ServedMulticall ==
    /\ Served
    /\ last.address = AccountAddress
    /\ EntryPoint(AccountAddress, last.selector) = "__execute__"
    /\ ParseMulticall(last.calldata).ok

CarriedNonce == ParseMulticall(last.calldata).nonce

CarriedCalls == ParseMulticall(last.calldata).calls

\* What the executor would do with the request just served, run on the
\* state the request found.
RunOnPre ==
    ExecuteEntryPoint(last.pre,
        [contract_address |-> last.address, selector |-> last.selector,
         calldata |-> last.calldata])

\* The executor's run of the request just served, on the contents of the
\* state object it worked on.
RunOnSeen ==
    ExecuteEntryPoint(last.seen,
        [contract_address |-> last.address, selector |-> last.selector,
         calldata |-> last.calldata])

IsIncrease(c) ==
    /\ c.to = TargetAddress
    /\ c.selector = get_selector_from_name("increase_balance")
    /\ Len(c.calldata) = 2

IsGetBalance(c) ==
    /\ c.to = TargetAddress
    /\ c.selector = get_selector_from_name("get_balance")
    /\ Len(c.calldata) = 0

CallValid(c) == IsIncrease(c) \/ IsGetBalance(c)

\* Sum of the amounts the increase_balance calls of a multicall declare.
RECURSIVE DeclaredAmount(_)
DeclaredAmount(calls) ==
    IF calls = << >> THEN 0
    ELSE LET c == Head(calls)
         IN (IF IsIncrease(c) THEN c.calldata[1] + c.calldata[2] ELSE 0)
            + DeclaredAmount(Tail(calls))

\* The balances the get_balance calls of a multicall read when the calls
\* take effect one after the other, starting from balance b.
RECURSIVE BalancesRead(_, _)
BalancesRead(calls, b) ==
    IF calls = << >> THEN << >>
    ELSE LET c == Head(calls)
         IN IF IsIncrease(c)
            THEN BalancesRead(Tail(calls), b + c.calldata[1] + c.calldata[2])
            ELSE << b >> \o BalancesRead(Tail(calls), b)

\* The fee an estimate of the request just served reports from the state
\* the request found, when the estimate is made with bound m.
EstimateOnPre(m) ==
    Adapted(call_or_invoke(ContractWrapper(last.address), last.pre, "call",
                           last.selector, last.calldata, last.signature,
                           last.caller_address, m))

\* What a call of get_balance reads from the current persistent state.
BalanceReadNow ==
    Adapted(call_or_invoke(ContractWrapper(TargetAddress), state, "call",
                           get_selector_from_name("get_balance"), << >>, None,
                           ExternalCaller, MaxFee)).retdata

(***************************************************************************)
(* Properties.                                                             *)
(***************************************************************************)

\* C1: a call (estimate_fee included) leaves the persistent state as it
\* found it, balance and nonce alike, whether it succeeds or fails.
C1_CallLeavesStateUnchanged ==
    ServedCall => state = last.pre

\* An estimate of a multicall that succeeded on the copy taken at its
\* start, and whose execution would have changed both balance and nonce,
\* left untouched the state an invoke had changed in the meantime.
C1_Witness ==
    /\ last.op = "estimate_fee"
    /\ last.ok
    /\ RunOnSeen.state.balance # last.seen.balance
    /\ RunOnSeen.state.nonce # last.seen.nonce
    /\ last.pre # last.start
    /\ state = last.pre

\* C2: a successful invoke acts on the live state: what the executor did
\* is retained, an invoke of increase_balance(a, b) moves the balance by
\* exactly a + b, and a call made afterwards reads the new balance.
C2_InvokeMutationRetained ==
    (ServedInvoke /\ last.ok) =>
        /\ state = RunOnPre.state
        /\ (last.address = TargetAddress
              /\ last.selector = get_selector_from_name("increase_balance"))
           => /\ state.balance = last.pre.balance + last.calldata[1] + last.calldata[2]
              /\ state.nonce = last.pre.nonce
              /\ BalanceReadNow = << last.pre.balance + last.calldata[1] + last.calldata[2] >>

\* A second successful invoke of increase_balance on the sample contract.
C2_Witness ==
    /\ ServedInvoke
    /\ last.ok
    /\ last.address = TargetAddress
    /\ last.selector = get_selector_from_name("increase_balance")
    /\ last.pre.balance > 0
    /\ state.balance > last.pre.balance

\* C3: the stored nonce equals the number of accepted account invokes; a
\* request changes it only when it is an accepted account invoke, and then
\* by exactly one.
C3_NonceMonotonic ==
    /\ state.nonce = invokes
    /\ Served =>
         IF IsAccountInvoke(last.address, last.choice, last.selector, last)
         THEN state.nonce = last.pre.nonce + 1
         ELSE state.nonce = last.pre.nonce

\* After an accepted invoke, an invoke with the right nonce is rejected for
\* its fee and the nonce stays.
C3_Witness ==
    /\ ServedInvoke
    /\ ServedMulticall
    /\ invokes >= 1
    /\ CarriedNonce = last.pre.nonce
    /\ last.err = "FeeTooLow"
    /\ state.nonce = last.pre.nonce

\* C4: an account invoke is accepted only when it carries the stored nonce,
\* no nonce is accepted twice, and an invoke carrying another nonce fails
\* with NonceMismatch and changes nothing.
C4_ReplayProtection ==
    (ServedInvoke /\ ServedMulticall) =>
        /\ last.ok => /\ CarriedNonce = last.pre.nonce
                      /\ CarriedNonce \notin last.pre_accepted
        /\ CarriedNonce # last.pre.nonce =>
              /\ ~last.ok
              /\ last.err = "NonceMismatch"
              /\ state = last.pre

\* Nonce 0 is submitted again after an invoke with nonce 0 was accepted.
C4_Witness ==
    /\ last.op = "execute"
    /\ 0 \in last.pre_accepted
    /\ CarriedNonce = 0
    /\ last.pre.nonce = 1
    /\ last.err = "NonceMismatch"
    /\ state.nonce = 1

\* C5: a multicall executed with a max_fee below what it costs is REJECTED
\* and leaves balance and nonce as they were.
C5_LowMaxFeeRejected ==
    (ServedInvoke /\ ServedMulticall /\ RunOnPre.ok /\ last.max_fee < RunOnPre.steps) =>
        /\ TxStatus(last.ok) = "REJECTED"
        /\ state = last.pre

\* A multicall that would otherwise be accepted is executed with a max_fee
\* one below its cost.
C5_Witness ==
    /\ last.op = "execute"
    /\ RunOnPre.ok
    /\ RunOnPre.state.balance > last.pre.balance
    /\ last.max_fee = RunOnPre.steps - 1
    /\ last.max_fee >= 1
    /\ last.err = "FeeTooLow"
    /\ state = last.pre

\* C6: when an estimate of the multicall from the same state reports fee F,
\* executing it with any max_fee >= F is ACCEPTED, charges F, and applies
\* the multicall (balance moved by the declared amounts, nonce advanced).
C6_EstimateThenExecute ==
    (ServedInvoke /\ ServedMulticall) =>
        \A m \in 0..MaxFee :
            (EstimateOnPre(m).ok /\ last.max_fee >= EstimateOnPre(m).actual_fee) =>
                /\ TxStatus(last.ok) = "ACCEPTED_ON_L2"
                /\ last.actual_fee = EstimateOnPre(m).actual_fee
                /\ state.balance = last.pre.balance + DeclaredAmount(CarriedCalls)
                /\ state.nonce = last.pre.nonce + 1

\* A multicall is executed with max_fee exactly the estimated fee.
C6_Witness ==
    /\ last.op = "execute"
    /\ \E m \in 0..MaxFee : /\ EstimateOnPre(m).ok
                            /\ last.max_fee = EstimateOnPre(m).actual_fee
    /\ last.ok
    /\ state.balance > last.pre.balance

\* C7: a multicall one of whose calls fails is rejected as a whole: the
\* persistent state is what it was, no earlier call's effect is kept and
\* the nonce is not advanced.
C7_MulticallAtomic ==
    (ServedInvoke /\ ServedMulticall
       /\ \E i \in DOMAIN CarriedCalls : ~CallValid(CarriedCalls[i])) =>
        /\ ~last.ok
        /\ state = last.pre

\* The second call of a two-call multicall fails after the first one took
\* effect, with the right nonce and enough fee.
C7_Witness ==
    /\ last.op = "execute"
    /\ Len(CarriedCalls) = 2
    /\ IsIncrease(CarriedCalls[1])
    /\ ~CallValid(CarriedCalls[2])
    /\ CarriedNonce = last.pre.nonce
    /\ last.max_fee = MaxFee
    /\ last.err = "InvalidArguments"
    /\ state = last.pre

\* C8: an accepted multicall applies every call in list order within one
\* invoke: the balance moves by the sum of the declared amounts, each
\* get_balance reads the balance left by the calls before it, and the nonce
\* advances by exactly one whatever the number of calls.
C8_MulticallAppliesAll ==
    (ServedInvoke /\ ServedMulticall /\ last.ok) =>
        /\ state.balance = last.pre.balance + DeclaredAmount(CarriedCalls)
        /\ state.nonce = last.pre.nonce + 1
        /\ last.retdata = BalancesRead(CarriedCalls, last.pre.balance)

\* increase_balance(10, 20) and increase_balance(30, 40) from balance 0
\* leave balance 100 and nonce 1.
C8_Witness ==
    /\ last.op = "execute"
    /\ last.ok
    /\ last.pre = InitialState
    /\ Len(CarriedCalls) = 2
    /\ CarriedCalls[1].calldata = << 10, 20 >>
    /\ CarriedCalls[2].calldata = << 30, 40 >>
    /\ state = [balance |-> 100, nonce |-> 1]

\* The request just served names a selector the wrapper's table lacks.
UnregisteredSelector ==
    /\ Served
    /\ last.selector \notin DOMAIN ContractWrapper(last.address).selector2abi

HasDefaultEntry ==
    DEFAULT_SELECTOR \in DOMAIN ContractWrapper(last.address).selector2abi

\* C9: a request with an unregistered selector, on a contract whose table
\* holds the default selector, is resolved to the ABI entry of the default
\* entry point and served.
C9_SelectorFallback ==
    (UnregisteredSelector /\ HasDefaultEntry) =>
        /\ last.method_abi = ContractWrapper(last.address).selector2abi[DEFAULT_SELECTOR]
        /\ RunOnPre.ok /\ ~FeeRejected(RunOnPre.steps, last.max_fee) => last.ok

\* C10: a request with an unregistered selector, on a contract without a
\* default entry point, fails with IllegalSelector, never reaches the
\* executor and leaves the persistent state unchanged.
C10_IllegalSelector ==
    (UnregisteredSelector /\ ~HasDefaultEntry) =>
        /\ ~last.ok
        /\ last.err = "IllegalSelector"
        /\ last.executor_calls = 0
        /\ state = last.pre

(***************************************************************************)
(* Vocabulary of the properties of concurrent requests.                    *)
(***************************************************************************)
\* The coroutine that has just resumed ran an accepted invoke of the
\* account's __execute__.
AcceptedAccountInvoke ==
    /\ ServedInvoke
    /\ last.address = AccountAddress
    /\ EntryPoint(AccountAddress, last.selector) = "__execute__"
    /\ last.executed

\* The outcomes the request just served can have when it runs alone on the
\* state its coroutine started from.
RunOnStart ==
    call_or_invoke(ContractWrapper(last.address), last.start, last.choice,
                   last.selector, last.calldata, last.signature,
                   last.caller_address, last.max_fee)

\* C11: invokes in flight at the same time on one persistent state are
\* serialized: an invoke's mutation is computed on the state it is applied
\* to (none begins before the one before it completed), the final state is
\* that of the accepted invokes in some sequential order with one nonce
\* step each, and two invokes carrying the same nonce are never both
\* accepted.
C11_InvokesSerialized ==
    /\ ServedInvoke => last.seen = last.pre
    /\ state.nonce = invokes
    /\ AcceptedAccountInvoke => CarriedNonce \notin last.pre_accepted

\* C15: a call observes the persistent state as it was when the call
\* started, whatever calls and invokes are in flight with it; calls started
\* from the same state with the same request observe the same value, that
\* of the request run alone on that state; a call's completion leaves the
\* persistent state as it found it.
C15_SnapshotIsolation ==
    ServedCall =>
        /\ last.seen = last.start
        /\ state = last.pre
        /\ \E alone \in RunOnStart :
               /\ last.ok = alone.ok
               /\ last.err = alone.err
               /\ last.retdata = alone.retdata
               /\ last.adapted = alone.adapted

\* A get_balance call started before an invoke was accepted resumes after
\* it and still returns the balance of its start, which the persistent
\* state no longer holds.
C15_Witness ==
    /\ ServedCall
    /\ last.address = TargetAddress
    /\ last.selector = get_selector_from_name("get_balance")
    /\ last.ok
    /\ invokes > 0
    /\ last.pre # last.start
    /\ last.retdata = << last.start.balance >>
    /\ state.balance # last.start.balance

\* C12: a max_fee of 0 is a bound like any other.  An invoke with max_fee
\* 0 whose execution costs more than 0 is rejected with balance and nonce
\* as they were; it is accepted only when the fee is exactly 0; the bound
\* handed to the executor is 0, never "no bound".
C12_ZeroMaxFeeChecked ==
    (ServedInvoke /\ last.max_fee = 0) =>
        /\ last.args.max_fee = 0
        /\ (RunOnSeen.ok /\ RunOnSeen.steps > 0) =>
               /\ TxStatus(last.ok) = "REJECTED"
               /\ last.err = "FeeTooLow"
               /\ state = last.pre
        /\ last.ok => (RunOnSeen.steps = 0 /\ last.actual_fee = 0)

\* A multicall with the right nonce that would raise the balance is
\* executed with max_fee 0.
C12_Witness ==
    /\ last.op = "execute"
    /\ last.max_fee = 0
    /\ RunOnSeen.ok
    /\ RunOnSeen.state.balance > last.seen.balance
    /\ RunOnSeen.state.nonce = last.seen.nonce + 1
    /\ ~last.ok
    /\ state = last.pre

\* What the executor makes of the forwarded request on the contents of the
\* state object it worked on.
ExecutorOnSeen == invoke_raw(last.seen, last.args)

\* C13: when the executor fails, call_or_invoke raises the executor's own
\* error, returns no result pair, and the persistent state is the one
\* before the request.
C13_ExecutorErrorPropagated ==
    (Served /\ ~ExecutorOnSeen.ok) =>
        /\ last.err = ExecutorOnSeen.err
        /\ ~last.ok
        /\ state = last.pre

\* An invoke sent to the account's wrapper carries nonce 0 when the account
\* is at nonce 1: the executor's NonceMismatch reaches the caller.
C13_Witness ==
    /\ last.op = "call_or_invoke"
    /\ last.choice = "invoke"
    /\ last.address = AccountAddress
    /\ last.pre.nonce = 1
    /\ ExecutorOnSeen.err = "NonceMismatch"
    /\ last.err = "NonceMismatch"
    /\ state = last.pre

\* The coroutines in flight whose request is that of `last`.
InFlightOf(bag, l) ==
    {t \in BagToSet(bag) :
        /\ t.request.op = l.op
        /\ t.request.choice = l.choice
        /\ t.request.address = l.address
        /\ t.request.selector = l.selector
        /\ t.request.calldata = l.calldata
        /\ t.request.signature = l.signature
        /\ t.request.caller_address = l.caller_address
        /\ t.request.max_fee = l.max_fee
        /\ t.start = l.start}

\* C16: a request makes at most one executor invocation and ends with
\* either a result or an error: the step that ends it takes its coroutine
\* out of flight and starts none, no coroutine in flight has called the
\* executor more than once, and once the request has ended the only step
\* left is handing the outcome to the caller, so a rejected invoke is never
\* submitted again by the wrapper.
C16_NoRetry ==
    [][/\ \A t \in BagToSet(tasks') : t.executor_calls <= 1
       /\ (last'.op # "none") =>
              /\ last'.executor_calls <= 1
              /\ last'.ok = (last'.err = "")
              /\ \E t \in InFlightOf(tasks, last') :
                     tasks' = tasks (-) SetToBag({t})
       /\ (last.op # "none") =>
              /\ last' = NoRequest
              /\ state' = state
              /\ tasks' = tasks]_vars

\* A rejected invoke has reached the executor once.
C16_Witness ==
    /\ last.op = "execute"
    /\ TxStatus(last.ok) = "REJECTED"
    /\ last.err # ""
    /\ last.executor_calls = 1

RECURSIVE DecimalDigits(_)
DecimalDigits(n) ==
    IF n < 10 THEN << n >> ELSE Append(DecimalDigits(n \div 10), n % 10)

\* felt is the number that the signature value denotes.
Denotes(value, felt) ==
    IF value.str THEN DecimalDigits(felt) = value.digits ELSE felt = value.int

\* C18: the executor receives the wrapper's own contract address and the
\* request's selector, calldata, caller_address and max_fee unchanged, for
\* a call and for an invoke; the signature is absent when the request has
\* none, and otherwise the same values in the same order as numbers.
C18_RequestForwarded ==
    Served =>
        /\ last.args.contract_address = last.address
        /\ last.args.selector = last.selector
        /\ last.args.calldata = last.calldata
        /\ last.args.caller_address = last.caller_address
        /\ last.args.max_fee = last.max_fee
        /\ last.args.signature.some = last.signature.some
        /\ Len(last.args.signature.values) = Len(last.signature.values)
        /\ \A i \in DOMAIN last.signature.values :
               Denotes(last.signature.values[i], last.args.signature.values[i])

\* An invoke with a caller, a fee bound and a signature of a number and a
\* decimal string.
C18_Witness ==
    /\ ServedInvoke
    /\ last.caller_address = AccountAddress
    /\ last.max_fee = MaxFee
    /\ last.signature = Some(<< IntValue(7), StrValue(<< 1, 2 >>) >>)
    /\ last.args.signature = Some(<< 7, 12 >>)
    /\ last.args.caller_address = AccountAddress
    /\ last.args.max_fee = MaxFee

(***************************************************************************)
(* Properties of the tables built at construction.                         *)
(***************************************************************************)
IsStruct(abi, i) == abi[i].type = "struct"

\* C19: the type catalog's keys are exactly the names of the ABI's struct
\* entries, each key is mapped to a struct entry of that name, and of
\* several struct entries with one name the last in the ABI is the one kept.
C19_TypeCatalog ==
    wrapper.built =>
        /\ \A n \in DOMAIN wrapper.types :
               \E i \in DOMAIN wrapper.abi :
                   /\ IsStruct(wrapper.abi, i)
                   /\ wrapper.abi[i].name = n
                   /\ wrapper.types[n] = wrapper.abi[i]
        /\ \A i \in DOMAIN wrapper.abi :
               IsStruct(wrapper.abi, i) =>
                   /\ wrapper.abi[i].name \in DOMAIN wrapper.types
                   /\ (\A j \in DOMAIN wrapper.abi :
                          (IsStruct(wrapper.abi, j) /\ j > i) =>
                              wrapper.abi[j].name # wrapper.abi[i].name)
                      => wrapper.types[wrapper.abi[i].name] = wrapper.abi[i]

\* The ABI declares struct Point twice with different members, and a
\* function between the two.
C19_Witness ==
    /\ wrapper.built
    /\ Len(wrapper.abi) = 3
    /\ wrapper.abi[1] = AbiStruct("Point", << Member("x", "felt"), Member("y", "felt") >>)
    /\ wrapper.abi[2] = AbiEntry("function", "increase_balance")
    /\ wrapper.abi[3].name = "Point"
    /\ Len(wrapper.abi[3].members) = 3
    /\ DOMAIN wrapper.types = {"Point"}
    /\ wrapper.types["Point"] = wrapper.abi[3]

DeclaredFunctions(abi) ==
    {abi[i].name : i \in {j \in DOMAIN abi : abi[j].type = "function"}}

\* C20: the selector table maps the selector of every declared function
\* name to that function's ABI entry and has no other key; once built,
\* the table, the type catalog and the stored code are left as they are by
\* every call_or_invoke.
C20_SelectorTable ==
    [][/\ wrapper'.built =>
              /\ DOMAIN wrapper'.selector2abi =
                     {get_selector_from_name(n) : n \in DeclaredFunctions(wrapper'.abi)}
              /\ \A n \in DeclaredFunctions(wrapper'.abi) :
                     /\ wrapper'.selector2abi[get_selector_from_name(n)].type = "function"
                     /\ wrapper'.selector2abi[get_selector_from_name(n)].name = n
       /\ wrapper.built => wrapper' = wrapper]_vars

\* A wrapper of a contract declaring increase_balance and __default__ has
\* served an accepted invoke that changed the persistent state.
C20_Witness ==
    /\ wrapper.built
    /\ DeclaredFunctions(wrapper.abi) = {"increase_balance", "__default__"}
    /\ DOMAIN wrapper.selector2abi =
           {get_selector_from_name("increase_balance"), DEFAULT_SELECTOR}
    /\ ServedInvoke
    /\ last.ok
    /\ state # last.pre

\* The request just served is an accepted echo_point.
ServedEcho ==
    /\ Served
    /\ last.address = EchoAddress
    /\ last.selector = get_selector_from_name("echo_point")
    /\ last.ok

\* The structured arguments of the echo_point request just served.
EchoArguments ==
    adapt_calldata(last.calldata,
                   ContractWrapper(EchoAddress).selector2abi[last.selector].inputs,
                   ContractWrapper(EchoAddress).types)

\* The adapted element is the scalar value, and nothing but a scalar.
SameValue(adapted, value) ==
    /\ value.kind = "felt"
    /\ adapted = "0x" \o HexDigits(value.felt)

\* C14: for a function that returns its arguments and whose output types
\* are its input types, the adapted result of call_or_invoke has the shape
\* and the values of the structured arguments that adapt_calldata makes
\* of the flat calldata.
C14_AdapterRoundTrip ==
    ServedEcho =>
        /\ EchoArguments.ok
        /\ Len(last.adapted) = Len(EchoArguments.values)
        /\ \A i \in DOMAIN last.adapted :
               SameValue(last.adapted[i], EchoArguments.values[i])

\* C17: an invoke that ends with an error, whether the executor raised it
\* or it arose after the executor had returned, leaves the persistent
\* state as it was before the request.
C17_InvokeErrorLeavesState ==
    (ServedInvoke /\ ~last.ok) =>
        /\ last.err # ""
        /\ state = last.pre

====
